---- MODULE Spec2Model ----
(***************************************************************************)
(* Winner resolution and flip counting of the election dashboard           *)
(* (graphs/flip_chart.py, graphs/map_chart.py).                            *)
(*                                                                         *)
(* A dataset is a pandas DataFrame of Ballot Rows; it is modelled as a     *)
(* sequence of records whose position is the row's index label.  A         *)
(* DataFrame derived from it by row selection (df[mask], df.loc[idx]) is a *)
(* function from the surviving index labels to rows.                       *)
(***************************************************************************)
EXTENDS Integers, Sequences, FiniteSets, TLC

\* ---------------------------------------------------------------- bounds
MaxRows == 3
NumYears == 3
MaxVotes == 1

\* ------------------------------------------------------------- constants
\* election years of the dataset, as cycle numbers (1 = first cycle)
Years == 1..NumYears

\* Python None as the value of start_year / end_year
NoneYear == 0

\* pandas NaN in the numeric column candidatevotes
NaNVotes == -1

\* pandas NaN in a cell of the state x year pivot of parties
NaN == "NaN"

\* Python None as the value of prev in count_flips
None == "None"

US_50_STATES ==
    << "AL","AK","AZ","AR","CA","CO","CT","DE","FL","GA","HI","ID","IL","IN","IA",
       "KS","KY","LA","ME","MD","MA","MI","MN","MS","MO","MT","NE","NV","NH","NJ","NM",
       "NY","NC","ND","OH","OK","OR","PA","RI","SC","SD","TN","TX","UT","VT","VA","WA",
       "WV","WI","WY" >>

\* state codes that occur in the modelled datasets, in the order Python
\* compares the strings: one canonical state, DC, one code outside the list
DataStateSeq == << "DC", "OH", "PR" >>

DataStates == { DataStateSeq[i] : i \in DOMAIN DataStateSeq }

\* values of party_simplified after the loader's normalisation; the flip
\* count only compares parties for equality, two values show every case
Parties == { "Democrat", "Republican" }

Votes == { NaNVotes } \cup (0..MaxVotes)

BallotRow ==
    [ state_po : DataStates, year : Years,
      party_simplified : Parties, candidatevotes : Votes ]

\* ----------------------------------------------------- generic helpers
Range(f) == { f[i] : i \in DOMAIN f }

Min(S) == CHOOSE x \in S : \A y \in S : x <= y

Max(S) == CHOOSE x \in S : \A y \in S : y <= x

\* sorted(S) for a finite set of integers
RECURSIVE sorted(_)
sorted(S) ==
    IF S = {} THEN << >>
    ELSE LET m == Min(S) IN << m >> \o sorted(S \ { m })

\* ------------------------------------------------- graphs/map_chart.py
\* get_display_states without the DC check of lines 20-26
get_display_states_no_dc(d) == US_50_STATES

\* get_display_states: the canonical list, then DC when the value DC occurs
\* in a state column of the dataset (rows with null votes included)
get_display_states(d) ==
    LET vals == { d[i].state_po : i \in DOMAIN d }
    IN IF "DC" \in vals /\ "DC" \notin Range(US_50_STATES)
       THEN Append(US_50_STATES, "DC")
       ELSE US_50_STATES

\* ------------------------------------------------ graphs/flip_chart.py
\* the dataset without the notna filter of line 26
notna_keep_all(d) == DOMAIN d

\* df[df['candidatevotes'].notna()]: the index labels that survive
notna(d) == { i \in DOMAIN d : d[i].candidatevotes # NaNVotes }

\* the keys of df.groupby([group_col, 'year'])
GroupKeys(d) == { << d[i].state_po, d[i].year >> : i \in notna(d) }

\* the labels of one group, null-vote rows already filtered out
GroupRows(d, k) ==
    { i \in notna(d) : d[i].state_po = k[1] /\ d[i].year = k[2] }

\* idxmax taking the last row that holds the maximum instead of the first
idxmax_last(d, k) ==
    LET g == { i \in notna(d) : d[i].state_po = k[1] /\ d[i].year = k[2] }
        m == Max({ d[i].candidatevotes : i \in g })
    IN Max({ i \in g : d[i].candidatevotes = m })

\* Series.idxmax of one group: the label of the first row holding the maximum
idxmax(d, k) ==
    LET g == GroupRows(d, k)
        m == Max({ d[i].candidatevotes : i \in g })
    IN Min({ i \in g : d[i].candidatevotes = m })

\* _winners_by_state_year: df.loc[idx, ...] keyed by (state_po, year); the
\* frame is kept as a function from the selected labels to its rows
winners_by_state_year(d) ==
    LET idx == { idxmax(d, k) : k \in GroupKeys(d) }
    IN [ i \in idx |->
           [ state_po |-> d[i].state_po, year |-> d[i].year,
             party_simplified |-> d[i].party_simplified,
             candidatevotes |-> d[i].candidatevotes ] ]

\* sorted({y for (_, y) in winners.index})
years_of(w) == sorted({ w[i].year : i \in DOMAIN w })

\* every year with a Winner Record, whatever the requested endpoints
years_range_of_all(ys, start, end) == ys

\* the range filter with both endpoints left out (start < y < end)
years_range_of_exclusive(ys, start, end) ==
    LET s == IF start = NoneYear THEN ys[1] ELSE start
        e == IF end = NoneYear THEN ys[Len(ys)] ELSE end
    IN SelectSeq(ys, LAMBDA y : s < y /\ y < e)

\* [y for y in years if start_year <= y <= end_year], None replaced by the
\* first and the last year
years_range_of(ys, start, end) ==
    LET s == IF start = NoneYear THEN ys[1] ELSE start
        e == IF end = NoneYear THEN ys[Len(ys)] ELSE end
    IN SelectSeq(ys, LAMBDA y : s <= y /\ y <= e)

\* pivot_table(index='state_po', columns='year', values='party_simplified',
\* aggfunc='first'): a row per state with a winner, a column per year, NaN
\* where the state has no winner that year
pivot_table(w) ==
    LET states == { w[i].state_po : i \in DOMAIN w }
        cols == { w[i].year : i \in DOMAIN w }
        cell(s, y) ==
            LET ls == { i \in DOMAIN w : w[i].state_po = s /\ w[i].year = y }
            IN IF ls = {} THEN NaN ELSE w[Min(ls)].party_simplified
    IN [ s \in states |-> [ y \in cols |-> cell(s, y) ] ]

\* row.get(y)
row_get(row, y) == IF y \in DOMAIN row THEN row[y] ELSE NaN

\* the loop counting the first observed winner as a flip
RECURSIVE flip_loop_count_first(_, _, _, _)
flip_loop_count_first(seq, i, prev, flips) ==
    IF i > Len(seq) THEN flips
    ELSE IF seq[i] = NaN THEN flip_loop_count_first(seq, i + 1, None, flips)
    ELSE IF seq[i] # prev
         THEN flip_loop_count_first(seq, i + 1, seq[i], flips + 1)
    ELSE flip_loop_count_first(seq, i + 1, prev, flips)

\* the loop remembering the NaN of a no-race year as if it were a party
RECURSIVE flip_loop_gap_as_party(_, _, _, _)
flip_loop_gap_as_party(seq, i, prev, flips) ==
    IF i > Len(seq) THEN flips
    ELSE IF prev = None THEN flip_loop_gap_as_party(seq, i + 1, seq[i], flips)
    ELSE IF seq[i] # prev
         THEN flip_loop_gap_as_party(seq, i + 1, seq[i], flips + 1)
    ELSE flip_loop_gap_as_party(seq, i + 1, prev, flips)

\* the for loop of count_flips over seq from position i on
RECURSIVE flip_loop(_, _, _, _)
flip_loop(seq, i, prev, flips) ==
    IF i > Len(seq) THEN flips
    ELSE IF seq[i] = NaN THEN flip_loop(seq, i + 1, None, flips)
    ELSE IF prev = None THEN flip_loop(seq, i + 1, seq[i], flips)
    ELSE IF seq[i] # prev THEN flip_loop(seq, i + 1, seq[i], flips + 1)
    ELSE flip_loop(seq, i + 1, prev, flips)

\* count_flips(row) for the enclosing years_range
count_flips(row, years_range) ==
    LET seq == [ j \in 1..Len(years_range) |-> row_get(row, years_range[j]) ]
    IN flip_loop(seq, 1, None, 0)

\* flip_counts.reindex(display_states).fillna(0).astype(int): one entry per
\* element of display_states, in that order
reindex(counts, display_states) ==
    [ j \in 1..Len(display_states) |->
        [ state_po |-> display_states[j],
          flip_count |-> IF display_states[j] \in DOMAIN counts
                         THEN counts[display_states[j]] ELSE 0 ] ]

\* compute_flip_counts(df, start_year, end_year): the returned frame as the
\* sequence of its (state_po, flip_count) rows
compute_flip_counts(d, start, end) ==
    LET w == winners_by_state_year(d)
        ys == years_of(w)
    IN IF ys = << >> THEN << >>
       ELSE LET years_range == years_range_of(ys, start, end)
                pivot == pivot_table(w)
                counts == [ s \in DOMAIN pivot |->
                              count_flips(pivot[s], years_range) ]
            IN reindex(counts, get_display_states(d))

\* ------------------------------------------- columns of the dataset
\* the names under which a state column occurs in the modelled datasets
ColumnNames == { "state_po", "state", "STATE" }

\* c.lower() for these names
lower(c) == IF c = "STATE" THEN "state" ELSE c

\* the value of the full-name column state for a postal code
FullName(s) ==
    CASE s = "OH" -> "OHIO"
      [] s = "DC" -> "DISTRICT OF COLUMBIA"
      [] s = "PR" -> "PUERTO RICO"
      [] OTHER -> s

\* row[c] for a state column c
column_value(r, c) ==
    IF lower(c) = "state_po" THEN r.state_po ELSE FullName(r.state_po)

\* _winners_by_state_year, lines 9-22: the first of state_po, state that is a
\* column, else a column equal to one of them ignoring case, else None
flip_group_col(cols) ==
    IF "state_po" \in cols THEN "state_po"
    ELSE IF "state" \in cols THEN "state"
    ELSE IF \E c \in cols : lower(c) \in { "state_po", "state" }
         THEN CHOOSE c \in cols : lower(c) \in { "state_po", "state" }
    ELSE None

\* create_map_chart line 37 and winners_for_year line 91: state if it is a
\* column, else state_po, else None
map_group_col(cols) ==
    IF "state" \in cols THEN "state"
    ELSE IF "state_po" \in cols THEN "state_po"
    ELSE None

\* the frame with column c in the place of state_po
\* (winners.rename(columns={group_col: 'state_po'}), w['state_po'] = w['state'])
keyed(d, c) ==
    [ i \in DOMAIN d |-> [ d[i] EXCEPT !.state_po = column_value(d[i], c) ] ]

\* get_display_states on the list object canon and the state columns cols:
\* display = list(canon), then DC when a state column holds the value DC
get_display_states_of(canon, d, cols) ==
    LET cs == { c \in cols : lower(c) \in { "state_po", "state" } }
        vals == { column_value(d[i], c) : i \in DOMAIN d, c \in cs }
    IN IF cs # {} /\ "DC" \in vals /\ "DC" \notin Range(canon)
       THEN Append(canon, "DC")
       ELSE canon

\* the module's list handed out itself: appends to the returned list are
\* appends to US_50_STATES
US_50_STATES_after_alias(canon, display_states) == display_states

\* the contents of the module-level US_50_STATES once a caller has extended
\* the list it was given: display = list(US_50_STATES) is a new list object,
\* so the module's list keeps its contents
US_50_STATES_after(canon, display_states) == canon

\* ------------------------------------- flip_chart.py: the two figures
\* the rows of frame by descending flip_count from hi down to lo, rows of
\* equal count in their frame order
RECURSIVE rows_desc(_, _, _)
rows_desc(frame, hi, lo) ==
    IF hi < lo THEN << >>
    ELSE SelectSeq(frame, LAMBDA r : r.flip_count = hi)
             \o rows_desc(frame, hi - 1, lo)

\* counts.sort_values('flip_count'), ascending, in the place of line 104's
\* descending sort
sort_values_asc(frame) ==
    IF frame = << >> THEN << >>
    ELSE LET d == rows_desc(frame,
                      Max({ frame[j].flip_count : j \in DOMAIN frame }),
                      Min({ frame[j].flip_count : j \in DOMAIN frame }))
         IN [ j \in 1..Len(d) |-> d[Len(d) + 1 - j] ]

\* counts.sort_values('flip_count', ascending=False); pandas leaves the order
\* of equal counts open, the rows are taken here in their frame order
sort_values_desc(frame) ==
    IF frame = << >> THEN << >>
    ELSE rows_desc(frame,
             Max({ frame[j].flip_count : j \in DOMAIN frame }),
             Min({ frame[j].flip_count : j \in DOMAIN frame }))

\* frame.head(n)
head(frame, n) == SubSeq(frame, 1, IF n < Len(frame) THEN n ELSE Len(frame))

\* create_flip_bar: the frame handed to px.bar
create_flip_bar(d, start, end, top_n) ==
    head(sort_values_desc(compute_flip_counts(d, start, end)), top_n)

\* create_flip_choropleth: the frame handed to px.choropleth
create_flip_choropleth(d, start, end) == compute_flip_counts(d, start, end)

\* ----------------------------------------- map_chart.py: the two maps
\* the labels of the rows of one year: dframe[dframe['year'] == year]
year_rows(d, year) == { i \in DOMAIN d : d[i].year = year }

\* a state of that year has no row with votes: idxmax of its group yields no
\* label and dfy.loc[idx] raises
all_nan_group(d, year) ==
    \E i \in year_rows(d, year) :
        \A j \in year_rows(d, year) :
            d[j].state_po = d[i].state_po => d[j].candidatevotes = NaNVotes

\* winners_for_year: the party of the row with the most votes per state of
\* that year, keyed by state_po (defined when no group is all NaN)
winners_for_year(d, year) ==
    [ s \in { d[i].state_po : i \in year_rows(d, year) } |->
        d[idxmax(d, << s, year >>)].party_simplified ]

\* classify(row) of create_flip_map; a and b are a party or NaN
classify(a, b) ==
    IF a = NaN /\ b = NaN THEN "No Race"
    ELSE IF a = NaN /\ b # NaN THEN "No Race"
    ELSE IF a # NaN /\ b = NaN THEN "No Race"
    ELSE IF a = b THEN "Stayed " \o a
    ELSE "Flipped to " \o b

\* merged['status'] of create_flip_map for the display list
flip_map_frame(display_states, w_a, w_b) ==
    [ j \in 1..Len(display_states) |->
        LET s == display_states[j]
        IN [ state_po |-> s,
             status |-> classify(row_get(w_a, s), row_get(w_b, s)) ] ]

\* merged of create_map_chart: the winning party per display state, No Race
\* where the state has no winner that year
map_chart_frame(display_states, w) ==
    [ j \in 1..Len(display_states) |->
        LET s == display_states[j]
        IN [ state_po |-> s,
             party_simplified |-> IF s \in DOMAIN w THEN w[s] ELSE "No Race" ] ]

\* ------------------------------------------------------------------ state
VARIABLES
    df,           \* the dataset loaded at start-up, read-only afterwards
    pc,           \* "load": reading the file, "idle": waiting for a request,
                  \* "done": a request was served and its figures are shown
    start_year,   \* arguments of the compute_flip_counts call being served
    end_year,
    winners,      \* the Winner Records resolved by that call
    flip_counts,  \* the frame that call returned
    columns,      \* df.columns: the names of the state columns of the dataset
    us_50_states, \* the module-level list object US_50_STATES of map_chart.py
    dataset,      \* the value of dataset_selector the last callback was given
    computed,     \* whether that callback invoked compute_flip_counts
    group_col,    \* the column its winner resolution grouped by
    error,        \* the exception it raised, None when it returned
    figures,      \* the frames it handed to the chart constructors
    controls      \* the disabled flags of flip_start_year and flip_end_year

\* the state of app.py's callbacks and of the chart constructors they call
view == << columns, us_50_states, dataset, computed, group_col, error,
           figures, controls >>

vars == << df, pc, start_year, end_year, winners, flip_counts, view >>

YearArgs == Years \cup { NoneYear }

Rank(s) == CHOOSE i \in DOMAIN DataStateSeq : DataStateSeq[i] = s

\* rows arrive in file order: by year, then by state; rows of the same
\* state and year keep any relative order
FileOrder(r1, r2) ==
    \/ r1.year < r2.year
    \/ r1.year = r2.year /\ Rank(r1.state_po) <= Rank(r2.state_po)

\* both state columns of the election files, no callback served yet
InitView ==
    /\ columns = { "state_po", "state" }
    /\ us_50_states = US_50_STATES
    /\ dataset = "president"
    /\ computed = FALSE
    /\ group_col = None
    /\ error = None
    /\ figures = << >>
    /\ controls = << FALSE, FALSE >>

Init ==
    /\ df = << >>
    /\ pc = "load"
    /\ start_year = NoneYear
    /\ end_year = NoneYear
    /\ winners = << >>
    /\ flip_counts = << >>
    /\ InitView

\* _load_and_prepare reads one more Ballot Row of the file
LoadRow ==
    /\ pc = "load"
    /\ Len(df) < MaxRows
    /\ \E r \in BallotRow :
          /\ Len(df) > 0 => FileOrder(df[Len(df)], r)
          /\ df' = Append(df, r)
    /\ UNCHANGED << pc, start_year, end_year, winners, flip_counts, view >>

\* the file is read: the module-level dataset is set and the app serves
StartApp ==
    /\ pc = "load"
    /\ pc' = "idle"
    /\ UNCHANGED << df, start_year, end_year, winners, flip_counts, view >>

\* the call with the notna filter of line 26 applied to the caller's frame
\* (no df.copy(), the filter done in place)
ComputeFlipCounts_inplace ==
    /\ pc = "idle"
    /\ \E start \in YearArgs, end \in YearArgs :
          /\ start_year' = start
          /\ end_year' = end
          /\ winners' = winners_by_state_year(df)
          /\ flip_counts' = compute_flip_counts(df, start, end)
    /\ pc' = "done"
    /\ df' = SelectSeq(df, LAMBDA r : r.candidatevotes # NaNVotes)
    /\ UNCHANGED view

\* one call compute_flip_counts(df, start, end) on the loaded dataset
ComputeFlipCounts ==
    /\ pc = "idle"
    /\ \E start \in YearArgs, end \in YearArgs :
          /\ start_year' = start
          /\ end_year' = end
          /\ winners' = winners_by_state_year(df)
          /\ flip_counts' = compute_flip_counts(df, start, end)
    /\ pc' = "done"
    /\ UNCHANGED << df, view >>

\* the callback has returned; the locals of the call are gone and the app
\* waits for the next selection
Return ==
    /\ pc = "done"
    /\ pc' = "idle"
    /\ start_year' = NoneYear
    /\ end_year' = NoneYear
    /\ winners' = << >>
    /\ flip_counts' = << >>
    /\ UNCHANGED << df, view >>

Next == LoadRow \/ StartApp \/ ComputeFlipCounts \/ Return

Spec == Init /\ [][Next]_vars

\* ------------------------------------------------ vocabulary of the claims
\* a request has been served: winners and flip_counts are those of the call
Served == pc = "done"

\* state s has a Ballot Row with non-null votes in year y
Qualifies(s, y) ==
    \E i \in DOMAIN df :
        /\ df[i].state_po = s
        /\ df[i].year = y
        /\ df[i].candidatevotes # NaNVotes

HasWinnerRecord == \E s \in DataStates, y \in Years : Qualifies(s, y)

\* y lies in the requested range, both endpoints included, None unbounded
InRange(y) ==
    /\ start_year = NoneYear \/ start_year <= y
    /\ end_year = NoneYear \/ y <= end_year

\* the qualifying years of s: in range and with a Winner Record
QualYears(s) == { y \in Years : Qualifies(s, y) /\ InRange(y) }

\* the party of the Winner Record of (s, y)
WinnerParty(s, y) ==
    LET w == CHOOSE r \in Range(winners) : r.state_po = s /\ r.year = y
    IN w.party_simplified

\* the rows of a returned frame that carry state s
EntriesIn(frame, s) == { j \in DOMAIN frame : frame[j].state_po = s }

Entries(s) == EntriesIn(flip_counts, s)

FlipOf(s) == flip_counts[CHOOSE j \in Entries(s) : TRUE].flip_count

\* the Display State Set of the loaded dataset
DisplayStateSet ==
    Range(US_50_STATES) \cup
        (IF \E i \in DOMAIN df : df[i].state_po = "DC" THEN { "DC" } ELSE {})

\* the dataset with the rows of every state but s removed
OnlyState(d, s) == SelectSeq(d, LAMBDA r : r.state_po = s)

\* ------------------------------------------------------------------ claims
\* C1 (as claimed): a state whose qualifying years in range are two years
\* with different winning parties, with a no-race year of that state between
\* them, gets flip count 1: the gap does not erase the remembered winner.
C1_GapTransparency ==
    Served =>
        \A s \in DataStates : \A y1 \in Years, y2 \in Years, y3 \in Years :
            ( /\ Entries(s) # {}
              /\ y1 < y2 /\ y2 < y3
              /\ QualYears(s) = { y1, y3 }
              /\ WinnerParty(s, y1) # WinnerParty(s, y3) )
            => FlipOf(s) = 1

\* C2 (as claimed): a request with start_year > end_year returns the same
\* frame as the request with the endpoints swapped.
C2_ReversedRange ==
    ( /\ Served
      /\ start_year # NoneYear /\ end_year # NoneYear
      /\ start_year > end_year )
    => flip_counts = compute_flip_counts(df, end_year, start_year)

\* C3 (as claimed): the flip count of a state is the one the same request
\* returns on the dataset reduced to that state's own rows (0 when that
\* frame has no entry for the state).
C3_PerStateIndependence ==
    Served =>
        \A s \in DataStates :
            Entries(s) # {} =>
                LET alone == compute_flip_counts(OnlyState(df, s),
                                                 start_year, end_year)
                    js == EntriesIn(alone, s)
                IN FlipOf(s) = IF js = {} THEN 0
                               ELSE alone[CHOOSE j \in js : TRUE].flip_count

\* the states that carry an entry of the returned frame
EntryStates == { flip_counts[j].state_po : j \in DOMAIN flip_counts }

\* every display state has an entry, no two entries carry the same state,
\* and an entry other than 0 belongs to a state with a Winner Record in range
ReindexComplete ==
    /\ DisplayStateSet \subseteq EntryStates
    /\ Cardinality(EntryStates) = Len(flip_counts)
    /\ \A j \in DOMAIN flip_counts :
          flip_counts[j].flip_count # 0
              => QualYears(flip_counts[j].state_po) # {}

\* C4 (as claimed): for every dataset and range the returned frame has
\* exactly one entry for every state of the Display State Set, 0 for the
\* states with no Winner Record in range.
C4_ReindexCompleteAnyDataset == Served => ReindexComplete

\* C4 (amended): the same for every dataset that has at least one Winner
\* Record; for a dataset without any the returned frame is empty.
C4_ReindexComplete ==
    Served => IF HasWinnerRecord THEN ReindexComplete ELSE flip_counts = << >>

\* C4 witness: DC occurs in the dataset, has no Winner Record in range and
\* is returned with flip count 0
C4_Witness ==
    /\ Served
    /\ HasWinnerRecord
    /\ \E i \in DOMAIN df : df[i].state_po = "DC"
    /\ QualYears("DC") = {}
    /\ Cardinality(Entries("DC")) = 1
    /\ FlipOf("DC") = 0

\* C5 (as claimed): every state with a Winner Record in the dataset has an
\* entry in the returned frame, canonical or not.
C5_NoStateDropped ==
    Served =>
        \A s \in DataStates :
            (\E y \in Years : Qualifies(s, y)) => Entries(s) # {}

\* C6: the resolver yields exactly one Winner Record for each (state, year)
\* that has a row with non-null votes and none for any other pair.
C6_WinnerUnique ==
    Served =>
        \A s \in DataStates, y \in Years :
            Cardinality({ i \in DOMAIN winners :
                            winners[i].state_po = s /\ winners[i].year = y })
                = IF Qualifies(s, y) THEN 1 ELSE 0

\* C6 witness: one pair with two non-null rows, one pair with null rows only
C6_Witness ==
    /\ Served
    /\ \E i \in DOMAIN df, j \in DOMAIN df :
          /\ i # j
          /\ df[i].state_po = df[j].state_po /\ df[i].year = df[j].year
          /\ df[i].candidatevotes # NaNVotes /\ df[j].candidatevotes # NaNVotes
    /\ \E i \in DOMAIN df :
          /\ df[i].candidatevotes = NaNVotes
          /\ ~ Qualifies(df[i].state_po, df[i].year)

\* C7: every Winner Record is a row with non-null votes of its (state, year),
\* no row of the pair has more votes and no earlier row has as many.
C7_WinnerIsFirstMax ==
    Served =>
        \A w \in Range(winners) :
            \E i \in DOMAIN df :
                /\ df[i].state_po = w.state_po /\ df[i].year = w.year
                /\ df[i].party_simplified = w.party_simplified
                /\ df[i].candidatevotes = w.candidatevotes
                /\ df[i].candidatevotes # NaNVotes
                /\ \A j \in DOMAIN df :
                      ( /\ df[j].state_po = w.state_po /\ df[j].year = w.year
                        /\ df[j].candidatevotes # NaNVotes )
                      => /\ df[j].candidatevotes <= df[i].candidatevotes
                         /\ j < i => df[j].candidatevotes < df[i].candidatevotes

\* C7 witness: two rows of a pair tie on the maximum with different parties
\* and a null-vote row of the pair comes even earlier; the first of the two wins
C7_Witness ==
    /\ Served
    /\ \E n \in DOMAIN df, i \in DOMAIN df, j \in DOMAIN df :
          /\ n < i /\ i < j
          /\ df[n].state_po = df[i].state_po /\ df[n].year = df[i].year
          /\ df[i].state_po = df[j].state_po /\ df[i].year = df[j].year
          /\ df[n].candidatevotes = NaNVotes
          /\ df[i].candidatevotes = 0 /\ df[j].candidatevotes = 0
          /\ df[n].party_simplified # df[i].party_simplified
          /\ df[i].party_simplified # df[j].party_simplified
          /\ WinnerParty(df[i].state_po, df[i].year) = df[i].party_simplified

\* C8: every returned flip count is a natural number, and it is 0 for a
\* state with at most one qualifying year (a count other than 0 belongs to a
\* state with two qualifying years or more).
C8_NonNegativeZeroBaseline ==
    Served =>
        \A j \in DOMAIN flip_counts :
            /\ flip_counts[j].flip_count \in Nat
            /\ flip_counts[j].flip_count # 0
                  => Cardinality(QualYears(flip_counts[j].state_po)) >= 2

\* C8 witness: a state with winners of different parties in two years, of
\* which the requested range holds one, is returned with 0
C8_Witness ==
    /\ Served
    /\ \E s \in DataStates, y1 \in Years, y2 \in Years :
          /\ Qualifies(s, y1) /\ Qualifies(s, y2)
          /\ WinnerParty(s, y1) # WinnerParty(s, y2)
          /\ QualYears(s) = { y1 }
          /\ Entries(s) # {}
          /\ FlipOf(s) = 0

\* C9 (as claimed): a state with N >= 1 qualifying years whose winning party
\* differs between every two consecutive qualifying years gets N - 1.
C9_AlternationBound ==
    Served =>
        \A s \in DataStates :
            LET q == sorted(QualYears(s))
            IN ( /\ Entries(s) # {}
                 /\ Len(q) >= 1
                 /\ \A k \in 1..(Len(q) - 1) :
                       WinnerParty(s, q[k]) # WinnerParty(s, q[k + 1]) )
               => FlipOf(s) = Len(q) - 1

\* C10: a state whose winning party is the same in all of its qualifying
\* years gets flip count 0, no-race years between them or not.
C10_UnchangedPartyNoFlip ==
    Served =>
        \A s \in DataStates :
            ( /\ Entries(s) # {}
              /\ \A y1 \in QualYears(s), y2 \in QualYears(s) :
                    WinnerParty(s, y1) = WinnerParty(s, y2) )
            => FlipOf(s) = 0

\* C10 witness: the same party before and after a year that is a race year
\* of another state only
C10_Witness ==
    /\ Served
    /\ \E s \in DataStates, t \in DataStates,
          y1 \in Years, y2 \in Years, y3 \in Years :
          /\ y1 < y2 /\ y2 < y3
          /\ QualYears(s) = { y1, y3 }
          /\ Qualifies(t, y2) /\ InRange(y2)
          /\ WinnerParty(s, y1) = WinnerParty(s, y3)
          /\ Entries(s) # {}
          /\ FlipOf(s) = 0

\* ------------------------------------- the Ohio scenario (spec section 8)
\* the winning party of OH in the twelve cycles 1976 (cycle 1) .. 2020
OhioWinners ==
    << "Republican", "Republican", "Republican", "Republican",
       "Democrat", "Democrat", "Republican", "Republican",
       "Democrat", "Democrat", "Republican", "Republican" >>

OhioYearArgs == (DOMAIN OhioWinners) \cup { NoneYear }

\* _load_and_prepare reads the next Ballot Row of the scenario's file
OhioLoadRow ==
    /\ pc = "load"
    /\ Len(df) < Len(OhioWinners)
    /\ df' = Append(df, [ state_po |-> "OH", year |-> Len(df) + 1,
                          party_simplified |-> OhioWinners[Len(df) + 1],
                          candidatevotes |-> MaxVotes ])
    /\ UNCHANGED << pc, start_year, end_year, winners, flip_counts, view >>

\* one call compute_flip_counts(df, start, end) over the scenario's cycles
OhioComputeFlipCounts ==
    /\ pc = "idle"
    /\ \E start \in OhioYearArgs, end \in OhioYearArgs :
          /\ start_year' = start
          /\ end_year' = end
          /\ winners' = winners_by_state_year(df)
          /\ flip_counts' = compute_flip_counts(df, start, end)
    /\ pc' = "done"
    /\ UNCHANGED << df, view >>

NextOhio == OhioLoadRow \/ StartApp \/ OhioComputeFlipCounts \/ Return

SpecOhio == Init /\ [][NextOhio]_vars

\* the whole scenario is loaded and the request is [1976, 2020]
OhioFullRange ==
    /\ Served
    /\ Len(df) = Len(OhioWinners)
    /\ start_year = 1
    /\ end_year = Len(OhioWinners)

\* C11: for OH with winners R R R R D D R R D D R R over 1976..2020 and the
\* range [1976, 2020], compute_flip_counts returns flip count 4 for OH.
C11_OhioScenario == OhioFullRange => (Entries("OH") # {} /\ FlipOf("OH") = 4)

\* C11 witness: the scenario served over its whole range
C11_Witness == OhioFullRange /\ Cardinality(Entries("OH")) = 1

ConsideredYears ==
    sorted({ y \in Years : InRange(y) /\ \E s \in DataStates : Qualifies(s, y) })

\* the flip count of s in a frame, 0 when the frame has no entry for s
FlipIn(frame, s) ==
    LET js == EntriesIn(frame, s)
    IN IF js = {} THEN 0 ELSE frame[CHOOSE j \in js : TRUE].flip_count

\* the dataset without the Ballot Rows of years outside the requested range
InRangeRows(d) == SelectSeq(d, LAMBDA r : InRange(r.year))

\* C20: the flip count of every returned state is the scan of its winners
\* over exactly the years with a Winner Record inside [start_year, end_year]
\* (endpoints included, None meaning the earliest / the latest year), in
\* ascending order, and the same request on the dataset without the rows of
\* years outside the range gives every state the same flip count.
C20_InclusiveRange ==
    Served =>
        /\ \A ys \in { ConsideredYears } : \A s \in DataStates :
              Entries(s) # {} =>
                  FlipOf(s) =
                      flip_loop([ j \in 1..Len(ys) |->
                                    IF Qualifies(s, ys[j])
                                    THEN WinnerParty(s, ys[j])
                                    ELSE NaN ], 1, None, 0)
        /\ \A inside \in { compute_flip_counts(InRangeRows(df),
                                               start_year, end_year) } :
              \A s \in DataStates :
                  FlipIn(flip_counts, s) = FlipIn(inside, s)

\* C20 witness: a state changes party in the year that is the end of the
\* range and again after it; the default start is used; the count is 1
C20_Witness ==
    /\ Served
    /\ start_year = NoneYear
    /\ end_year # NoneYear
    /\ \E s \in DataStates, y1 \in Years, y3 \in Years :
          /\ y1 < end_year /\ end_year < y3
          /\ Qualifies(s, y1) /\ Qualifies(s, end_year) /\ Qualifies(s, y3)
          /\ WinnerParty(s, y1) # WinnerParty(s, end_year)
          /\ WinnerParty(s, end_year) # WinnerParty(s, y3)
          /\ Entries(s) # {}
          /\ FlipOf(s) = 1

\* ------------------------------------------- the callbacks of src/app.py
MaxAppRows == 2

NumAppYears == 2

MaxTopN == 2

DefaultTopN == 15

AppYears == 1..NumAppYears

\* the years a flip control can hold: None, a year of the dataset, and a
\* year after its last one
AppYearArgs == { NoneYear } \cup (1..(NumAppYears + 1))

\* _norm_party leaves Democrat and Republican and title-cases any other
\* party of the file
AppParties == Parties \cup { "Libertarian" }

AppBallotRow ==
    [ state_po : DataStates, year : AppYears,
      party_simplified : AppParties, candidatevotes : { NaNVotes, MaxVotes } ]

\* the frames _load_and_prepare can return: rows in file order
AppFrames ==
    { d \in UNION { [ 1..n -> AppBallotRow ] : n \in 0..MaxAppRows } :
        \A i \in 1..(Len(d) - 1) : FileOrder(d[i], d[i + 1]) }

\* the options of dataset_selector
Datasets == { "president", "senate" }

TopNArgs == (0..MaxTopN) \cup { DefaultTopN }

Orderings(S) == { q \in [ 1..Cardinality(S) -> S ] : Range(q) = S }

\* the column the winners of the map charts are keyed by: state_po when it
\* is a column, else the values of state copied into state_po
map_key_col(cols) == IF "state_po" \in cols THEN "state_po" ELSE "state"

\* the app is serving: the module-level frame is loaded, its state columns
\* are any of the modelled names, no callback is running
InitApp ==
    /\ df \in AppFrames
    /\ columns \in SUBSET ColumnNames
    /\ columns = { "state_po", "state" } \/ Len(df) <= 1
    /\ pc = "idle"
    /\ start_year = NoneYear
    /\ end_year = NoneYear
    /\ winners = << >>
    /\ flip_counts = << >>
    /\ us_50_states = US_50_STATES
    /\ dataset = "president"
    /\ computed = FALSE
    /\ group_col = None
    /\ error = None
    /\ figures = << >>
    /\ controls = << FALSE, FALSE >>

\* lines 419-422: create_flip_choropleth(df, start, end) and then
\* create_flip_bar(df, start, end), top_n left at its default
FlipFigures(start, end) ==
    LET gc == flip_group_col(columns)
    IN /\ computed' = TRUE
       /\ group_col' = gc
       /\ IF gc = None
          THEN /\ error' = "No state column found"
               /\ flip_counts' = << >>
               /\ figures' = << >>
          ELSE \E counts \in { create_flip_choropleth(keyed(df, gc),
                                                        start, end) } :
                 /\ error' = None
                 /\ flip_counts' = counts
                 /\ figures' =
                      << [ kind |-> "choropleth", frame |-> counts ],
                         [ kind |-> "bar", top_n |-> DefaultTopN,
                           frame |-> create_flip_bar(keyed(df, gc), start,
                                         end, DefaultTopN) ] >>

\* update_flip_views without the senate branch of lines 403-416
UpdateFlipViews_no_guard ==
    /\ pc = "idle"
    /\ pc' = "update_flip_views"
    /\ dataset' \in Datasets
    /\ \E start \in AppYearArgs, end \in AppYearArgs :
          /\ start_year' = start
          /\ end_year' = end
          /\ FlipFigures(start, end)
    /\ UNCHANGED << df, winners, columns, us_50_states, controls >>

\* update_flip_views(dataset, start_year, end_year)
UpdateFlipViews ==
    /\ pc = "idle"
    /\ pc' = "update_flip_views"
    /\ dataset' \in Datasets
    /\ \E start \in AppYearArgs, end \in AppYearArgs :
          /\ start_year' = start
          /\ end_year' = end
          /\ IF dataset' = "senate"
             THEN /\ computed' = FALSE
                  /\ group_col' = None
                  /\ error' = None
                  /\ flip_counts' = << >>
                  /\ figures' = << [ kind |-> "placeholder" ],
                                   [ kind |-> "placeholder" ] >>
             ELSE FlipFigures(start, end)
    /\ UNCHANGED << df, winners, columns, us_50_states, controls >>

\* create_flip_bar(df, start_year, end_year, top_n) called directly
CreateFlipBar ==
    /\ pc = "idle"
    /\ pc' = "create_flip_bar"
    /\ \E start \in AppYearArgs, end \in AppYearArgs, top_n \in TopNArgs :
          LET gc == flip_group_col(columns)
          IN /\ start_year' = start
             /\ end_year' = end
             /\ computed' = TRUE
             /\ group_col' = gc
             /\ IF gc = None
                THEN /\ error' = "No state column found"
                     /\ flip_counts' = << >>
                     /\ figures' = << >>
                ELSE /\ error' = None
                     /\ flip_counts' =
                          compute_flip_counts(keyed(df, gc), start, end)
                     /\ figures' =
                          << [ kind |-> "bar", top_n |-> top_n,
                               frame |-> create_flip_bar(keyed(df, gc),
                                             start, end, top_n) ] >>
    /\ UNCHANGED << df, winners, columns, us_50_states, dataset, controls >>

\* create_map_chart(df, selected_year)
CreateMapChart ==
    /\ pc = "idle"
    /\ pc' = "create_map_chart"
    /\ \E year \in AppYears :
          LET gc == map_group_col(columns)
          IN /\ group_col' = gc
             /\ IF gc = None
                THEN /\ error' = "No state column found for map chart"
                     /\ figures' = << >>
                ELSE IF all_nan_group(df, year)
                THEN /\ error' = "KeyError"
                     /\ figures' = << >>
                ELSE /\ error' = None
                     /\ figures' =
                          << [ kind |-> "map", year |-> year,
                               frame |-> map_chart_frame(
                                   get_display_states_of(us_50_states, df,
                                                         columns),
                                   winners_for_year(
                                       keyed(df, map_key_col(columns)),
                                       year)) ] >>
    /\ UNCHANGED << df, start_year, end_year, winners, flip_counts, columns,
                    us_50_states, dataset, computed, controls >>

\* create_flip_map(df, year_a, year_b); the extra codes are appended in the
\* iteration order of a Python set, which is any order
CreateFlipMap ==
    /\ pc = "idle"
    /\ pc' = "create_flip_map"
    /\ \E year_a \in AppYears, year_b \in AppYears :
          LET gc == map_group_col(columns)
              kd == keyed(df, map_key_col(columns))
          IN /\ group_col' = gc
             /\ IF gc = None
                THEN /\ error' = "No state column found for flip map"
                     /\ figures' = << >>
                     /\ UNCHANGED us_50_states
                ELSE IF all_nan_group(df, year_a) \/ all_nan_group(df, year_b)
                THEN /\ error' = "KeyError"
                     /\ figures' = << >>
                     /\ UNCHANGED us_50_states
                ELSE LET w_a == winners_for_year(kd, year_a)
                         w_b == winners_for_year(kd, year_b)
                         display == get_display_states_of(us_50_states, df,
                                                          columns)
                         extra == (DOMAIN w_a \cup DOMAIN w_b)
                                      \ Range(display)
                     IN \E q \in Orderings(extra) :
                          /\ error' = None
                          /\ us_50_states' =
                               US_50_STATES_after(us_50_states, display \o q)
                          /\ figures' =
                               << [ kind |-> "flip_map",
                                    year_a |-> year_a, year_b |-> year_b,
                                    frame |-> flip_map_frame(display \o q,
                                                             w_a, w_b) ] >>
    /\ UNCHANGED << df, start_year, end_year, winners, flip_counts, columns,
                    dataset, computed, controls >>

\* disable_flip_controls(dataset)
DisableFlipControls ==
    /\ pc = "idle"
    /\ pc' = "disable_flip_controls"
    /\ dataset' \in Datasets
    /\ LET disabled == IF dataset' = "senate" THEN TRUE ELSE FALSE
       IN controls' = << disabled, disabled >>
    /\ UNCHANGED << df, start_year, end_year, winners, flip_counts, columns,
                    us_50_states, computed, group_col, error, figures >>

\* the call has returned or raised: its arguments, locals and outputs are
\* gone, the module's globals stay
ViewReturn ==
    /\ pc \in { "update_flip_views", "create_flip_bar", "create_map_chart",
                "create_flip_map", "disable_flip_controls" }
    /\ pc' = "idle"
    /\ start_year' = NoneYear
    /\ end_year' = NoneYear
    /\ flip_counts' = << >>
    /\ computed' = FALSE
    /\ group_col' = None
    /\ error' = None
    /\ figures' = << >>
    /\ dataset' = "president"
    /\ controls' = << FALSE, FALSE >>
    /\ UNCHANGED << df, winners, columns, us_50_states >>

NextApp ==
    \/ UpdateFlipViews
    \/ CreateFlipBar
    \/ CreateMapChart
    \/ CreateFlipMap
    \/ DisableFlipControls
    \/ ViewReturn

SpecApp == InitApp /\ [][NextApp]_vars

\* ---------------------------------------------------------------- C13
\* the dataset name an error message holds: the three literals raised for a
\* missing state column hold none
DatasetNamed(msg) ==
    CASE msg = "No state column found" -> None
      [] msg = "No state column found for map chart" -> None
      [] msg = "No state column found for flip map" -> None
      [] OTHER -> None

MissingColumnError ==
    error \in { "No state column found",
                "No state column found for map chart",
                "No state column found for flip map" }

\* C13: when the dataset has neither state_po nor state, winner resolution
\* raises before any aggregation, nothing is returned, and the message of
\* the error identifies the dataset concerned
C13_MissingStateColumn ==
    (pc # "idle" /\ \A c \in columns : lower(c) \notin { "state_po", "state" })
        => /\ pc # "disable_flip_controls" /\ (computed \/ pc # "update_flip_views")
              => MissingColumnError
           /\ MissingColumnError
              => /\ figures = << >>
                 /\ flip_counts = << >>
                 /\ DatasetNamed(error) = dataset

\* ---------------------------------------------------------------- C14
\* a flip computation was run by the callback or constructor being served
FlipServed ==
    /\ pc \in { "update_flip_views", "create_flip_bar" }
    /\ computed
    /\ group_col # None

\* the years of the rows that carry votes
DataYears == { df[i].year : i \in { j \in DOMAIN df :
                                      df[j].candidatevotes # NaNVotes } }

\* no row carries votes, or no such row lies between the requested endpoints
\* (None standing for the first and the last year with data)
NothingInRange ==
    \/ DataYears = {}
    \/ LET s == IF start_year = NoneYear THEN Min(DataYears) ELSE start_year
           e == IF end_year = NoneYear THEN Max(DataYears) ELSE end_year
       IN \A y \in DataYears : ~ (Min({ s, e }) <= y /\ y <= Max({ s, e }))

AllZero(frame) == \A j \in DOMAIN frame : frame[j].flip_count = 0

\* C14: when the dataset yields no Winner Record or the requested range
\* holds no year with data, compute_flip_counts, create_flip_choropleth and
\* create_flip_bar return without raising, and each of their frames is empty
\* or holds only zero flip counts
C14_GracefulEmpty ==
    (FlipServed /\ NothingInRange)
        => /\ error = None
           /\ AllZero(flip_counts)
           /\ figures # << >>
           /\ \A j \in DOMAIN figures : AllZero(figures[j].frame)

\* a state flips in years 1 and 2 and the request is for a later year only:
\* both figures are drawn with all counts zero
C14_Witness ==
    /\ pc = "update_flip_views"
    /\ FlipServed
    /\ NothingInRange
    /\ Cardinality({ df[i].party_simplified : i \in DOMAIN df }) = 2
    /\ Cardinality({ df[i].state_po : i \in DOMAIN df }) = 1
    /\ Cardinality(DataYears) = 2
    /\ Len(figures) = 2
    /\ flip_counts # << >>

\* ---------------------------------------------------------------- C15
\* the value DC occurs in a state column of the dataset
DCInStateColumn ==
    \E c \in columns, i \in DOMAIN df :
        lower(c) \in { "state_po", "state" } /\ column_value(df[i], c) = "DC"

\* C15: get_display_states returns the 50 canonical codes in canonical
\* order, followed by DC exactly when DC occurs in a state column; this
\* holds for every call, also after create_flip_map has appended extra codes
\* to the list it was given, and the canonical list itself never changes
C15_DisplayStateSet ==
    /\ us_50_states = US_50_STATES
    /\ \A display \in { get_display_states_of(us_50_states, df, columns) } :
          /\ SubSeq(display, 1, 50) = US_50_STATES
          /\ Len(display) = IF DCInStateColumn THEN 51 ELSE 50
          /\ DCInStateColumn => display[51] = "DC"

\* create_flip_map has drawn a map for a dataset that holds DC and a code
\* outside the canonical list, so that it appended an extra code
C15_Witness ==
    /\ pc = "create_flip_map"
    /\ error = None
    /\ DCInStateColumn
    /\ Len(figures[1].frame) = 52
    /\ figures[1].frame[51].state_po = "DC"
    /\ figures[1].frame[52].state_po = "PR"

\* ---------------------------------------------------------------- C16
\* the figures handed to px.bar by the call being served
BarFigures == { figures[j] : j \in { k \in DOMAIN figures :
                                       figures[k].kind = "bar" } }

Descending(frame) ==
    \A j \in 1..(Len(frame) - 1) :
        frame[j].flip_count >= frame[j + 1].flip_count

\* C16: create_flip_bar hands the chart at most top_n states (15 unless the
\* caller says otherwise), taken from the computed counts, ordered by flip
\* count descending, and no state left out has a strictly higher flip count
\* than a state in the chart
C16_RankedList ==
    \A bar \in BarFigures :
        /\ Len(bar.frame) <= bar.top_n
        /\ pc = "update_flip_views" => bar.top_n = 15
        /\ Descending(bar.frame)
        /\ Range(bar.frame) \subseteq Range(flip_counts)
        /\ Cardinality(Range(bar.frame)) = Len(bar.frame)
        /\ bar.frame # << >> =>
             \A j \in DOMAIN flip_counts :
                 flip_counts[j].flip_count
                         > bar.frame[Len(bar.frame)].flip_count
                     => flip_counts[j] \in Range(bar.frame)

\* a bar chart of one state is asked for and the one state that flipped,
\* which is not the first of the canonical list, is the state in it
C16_Witness ==
    /\ pc = "create_flip_bar"
    /\ \E bar \in BarFigures :
          /\ bar.top_n = 1
          /\ bar.frame = << [ state_po |-> "OH", flip_count |-> 1 ] >>
    /\ Len(flip_counts) = 50

\* ---------------------------------------------------------------- C17
\* C17: for the senate dataset update_flip_views returns two placeholder
\* figures and never invokes the flip computation, and disable_flip_controls
\* disables both flip year controls; for the president dataset the controls
\* are enabled and the flip computation is run with the selected endpoints
C17_SenateDisabled ==
    /\ (pc = "update_flip_views" /\ dataset = "senate")
          => /\ ~ computed
             /\ flip_counts = << >>
             /\ figures = << [ kind |-> "placeholder" ],
                             [ kind |-> "placeholder" ] >>
    /\ (pc = "update_flip_views" /\ dataset = "president")
          => /\ computed
             /\ error = None =>
                  /\ Len(figures) = 2
                  /\ figures[1].kind = "choropleth"
                  /\ figures[2].kind = "bar"
                  /\ figures[1].frame =
                       compute_flip_counts(keyed(df, flip_group_col(columns)),
                                           start_year, end_year)
    /\ pc = "disable_flip_controls"
          => controls = IF dataset = "senate" THEN << TRUE, TRUE >>
                        ELSE << FALSE, FALSE >>

\* the senate dataset holds a state that changed party and the flip views
\* were asked for: the placeholders are shown and nothing was computed
C17_Witness ==
    /\ pc = "update_flip_views"
    /\ dataset = "senate"
    /\ ~ computed
    /\ Len(figures) = 2
    /\ Len(df) = 2
    /\ df[1].state_po = df[2].state_po
    /\ df[1].year # df[2].year
    /\ df[1].party_simplified # df[2].party_simplified
    /\ DataYears = { 1, 2 }

\* ---------------------------------------------------------------- C18
\* a winner-resolution pass has chosen its grouping column
ResolutionRan ==
    \/ pc \in { "update_flip_views", "create_flip_bar" } /\ computed
    \/ pc \in { "create_map_chart", "create_flip_map" }

\* C18: every winner-resolution pass, the flip resolver's and the map
\* charts', groups the whole dataset by state_po when that column is present
\* and by state only when it is not
C18_StateKeyConsistency ==
    ResolutionRan
        => /\ "state_po" \in columns => group_col = "state_po"
           /\ ("state_po" \notin columns /\ "state" \in columns)
                 => group_col = "state"

\* ---------------------------------------------------------------- C19
FlipMapCategories ==
    { "Stayed Democrat", "Stayed Republican", "Flipped to Democrat",
      "Flipped to Republican", "No Race" }

\* each state of the flip map is given one status
OneStatusPerState ==
    (pc = "create_flip_map" /\ error = None)
        => \A frame \in { figures[1].frame } :
              Cardinality({ frame[j].state_po : j \in DOMAIN frame })
                  = Len(frame)

\* C19: for every pair of years create_flip_map gives every state of the
\* display set exactly one status, and the status is one of Stayed Democrat,
\* Stayed Republican, Flipped to Democrat, Flipped to Republican, No Race,
\* also when the winner of a year is of another party
C19_FlipMapCategories ==
    /\ OneStatusPerState
    /\ (pc = "create_flip_map" /\ error = None)
          => \A frame \in { figures[1].frame } :
                \A j \in DOMAIN frame : frame[j].status \in FlipMapCategories

\* ---------------------------------------------------------------- C21
\* the count of the gap-transparent algorithm for state s: the number of
\* consecutive pairs of its qualifying years, ascending, whose winning
\* parties differ; years without a Winner Record of s are not iterated
GapTransparentCount(s) ==
    LET q == sorted(QualYears(s))
    IN Cardinality({ k \in 1..(Len(q) - 1) :
                       WinnerParty(s, q[k]) # WinnerParty(s, q[k + 1]) })

\* the value count_flips returned for state s in the call being served,
\* before the reindex; 0 for a state without a row of the pivot
ScanCount(pivot, years_range, s) ==
    IF s \in DOMAIN pivot THEN count_flips(pivot[s], years_range) ELSE 0

\* s has a Winner Record in every in-range year that has one of any state
EveryYearQualifies(s) ==
    \A y \in Years :
        (InRange(y) /\ \E t \in DataStates : Qualifies(t, y))
            => Qualifies(s, y)

\* C21: for every dataset, range and state, the flip count count_flips
\* produces is never greater than the count of the gap-transparent
\* algorithm on the same Winner Records and the same range, and the two are
\* equal for every state that has a Winner Record in every in-range year
\* that appears in the dataset
C21_ScanVersusAlgorithm ==
    (Served /\ HasWinnerRecord) =>
        \A pivot \in { pivot_table(winners) } :
        \A years_range \in { years_range_of(years_of(winners),
                                            start_year, end_year) } :
        \A s \in DataStates :
            /\ ScanCount(pivot, years_range, s) <= GapTransparentCount(s)
            /\ EveryYearQualifies(s)
                  => ScanCount(pivot, years_range, s) = GapTransparentCount(s)
            /\ Entries(s) # {}
                  => FlipOf(s) = ScanCount(pivot, years_range, s)

\* a state changes party across a year in which only another state has a
\* winner: the scan returns 0 where the gap-transparent algorithm counts 1,
\* while the other state, present in one in-range year only, gets 0 from both
C21_Witness ==
    /\ Served
    /\ HasWinnerRecord
    /\ \E s \in DataStates :
          /\ Entries(s) # {}
          /\ FlipOf(s) = 0
          /\ GapTransparentCount(s) = 1
          /\ ~ EveryYearQualifies(s)

\* ---------------------------------------------------------------- C22
\* the ranges [start2, end2] that lie inside the requested range (an
\* endpoint None of the request standing for the first / the last year)
InnerRanges ==
    { r \in Years \X Years : r[1] <= r[2] /\ InRange(r[1]) /\ InRange(r[2]) }

\* C22: for a fixed dataset, every state's flip count over the requested
\* range [start1, end1] is at least its flip count over any range
\* [start2, end2] with start1 <= start2 <= end2 <= end1, and it is at most
\* the number of the state's qualifying years in the range minus one
\* whenever the state has a qualifying year
C22_RangeMonotonicity ==
    (Served /\ HasWinnerRecord) =>
        \A pivot \in { pivot_table(winners) } :
        \A ys \in { years_of(winners) } :
        \A s \in DataStates :
            Entries(s) # {} =>
                /\ \A r \in InnerRanges :
                      FlipOf(s) >= ScanCount(pivot,
                                       years_range_of(ys, r[1], r[2]), s)
                /\ QualYears(s) # {}
                      => FlipOf(s) <= Cardinality(QualYears(s)) - 1

\* a state changes party between two years of the requested range, so its
\* count is 1, and a range strictly inside the request holds only one of
\* the two years, where its count is 0
C22_Witness ==
    /\ Served
    /\ start_year # NoneYear /\ end_year # NoneYear
    /\ \E s \in DataStates :
          /\ Entries(s) # {}
          /\ FlipOf(s) = 1
          /\ Cardinality(QualYears(s)) = 2
          /\ \E r \in InnerRanges :
                /\ << start_year, end_year >> # r
                /\ ScanCount(pivot_table(winners),
                       years_range_of(years_of(winners), r[1], r[2]), s) = 0

====
